---- MODULE Spec2Model ----
(***************************************************************************)
(* Model of api/usdb-search.py: the `handler` entry point that logs in to  *)
(* USDB, runs a search, and for the first rows of the result table         *)
(* downloads the song archive and extracts its first .txt entry.           *)
(*                                                                         *)
(* Strings whose content the code inspects (the query, archive entry      *)
(* names) are sequences of one-character strings.  Archive entry data is  *)
(* a sequence of bytes, decoded text a sequence of code points.            *)
(***************************************************************************)
EXTENDS Integers, Sequences, FiniteSets, TLC

VARIABLES event, pc, query, login_resp, search_resp, rows, i, results,
          zip_resp, response, net, opened

vars == <<event, pc, query, login_resp, search_resp, rows, i, results,
          zip_resp, response, net, opened>>

(***************************************************************************)
(* Bounds of the model                                                     *)
(***************************************************************************)
\* largest number of data rows (rows after the header) in a search page
MaxRows == 11
\* largest number of rows of a page whose rows link to arbitrary archives
MaxFull == 1
\* largest number of entries in an archive
MaxEntries == 2

Min(a, b) == IF a < b THEN a ELSE b

(***************************************************************************)
(* Python built-ins used by the handler                                    *)
(***************************************************************************)
\* s[lo:hi] for 0 <= lo <= hi
Slice(s, lo, hi) == SubSeq(s, lo + 1, Min(hi, Len(s)))

IsSpace(c) == c \in {" ", "\t", "\n"}

RECURSIVE LStrip(_)
LStrip(s) == IF s # <<>> /\ IsSpace(Head(s)) THEN LStrip(Tail(s)) ELSE s

RECURSIVE RStrip(_)
RStrip(s) ==
  IF s # <<>> /\ IsSpace(s[Len(s)]) THEN RStrip(SubSeq(s, 1, Len(s) - 1)) ELSE s

\* strip() forgotten
StripMissing(s) == s

\* str.strip()
Strip(s) == RStrip(LStrip(s))

\* str.lower(), one character
LowerChar(c) ==
  CASE c = "A" -> "a" [] c = "B" -> "b" [] c = "C" -> "c"
    [] c = "T" -> "t" [] c = "X" -> "x" [] c = "M" -> "m" [] c = "P" -> "p"
    [] OTHER -> c

\* str.lower()
Lower(s) == [k \in 1..Len(s) |-> LowerChar(s[k])]

\* str.endswith(suffix)
EndsWith(s, suffix) ==
  /\ Len(s) >= Len(suffix)
  /\ SubSeq(s, Len(s) - Len(suffix) + 1, Len(s)) = suffix

DotTxt == <<".", "t", "x", "t">>

\* bytes.decode("utf-8", errors="replace") on data whose bytes >= 128 are
\* lead bytes with no continuation byte: each becomes U+FFFD
ReplacementChar == 65533
Decode(bytes) ==
  [k \in 1..Len(bytes) |-> IF bytes[k] < 128 THEN bytes[k] ELSE ReplacementChar]

(***************************************************************************)
(* The event passed to the handler                                         *)
(***************************************************************************)
\* a parsed JSON value: an object (with or without a "query" key, whose
\* value is a string, null or a number) or something that is not an object
JObj(has, qtype, q) == [type |-> "object", has |-> has, qtype |-> qtype, q |-> q]
JOther(type) == [type |-> type, has |-> FALSE, qtype |-> "null", q |-> <<>>]

Queries == {<<>>, <<" ">>, <<" ", "\t">>, <<" ", "a", " ">>}

JsonValues ==
  {JOther("array"), JOther("null"), JObj(FALSE, "null", <<>>),
   JObj(TRUE, "null", <<>>), JObj(TRUE, "num", <<>>)}
  \cup {JObj(TRUE, "str", q) : q \in Queries}

\* event["body"]: absent (None), the empty string, text that is not JSON,
\* or JSON text
Bodies ==
  {[text |-> t, value |-> JOther("null")] : t \in {"none", "empty", "invalid"}}
  \cup {[text |-> "json", value |-> v] : v \in JsonValues}

\* event["httpMethod"]; "None" is an event without the key
Methods == {"None", "GET", "post", "POST"}

Events == [httpMethod : Methods, body : Bodies]

\* json.loads(event.get("body") or "{}")
JsonLoads(b) ==
  IF b.text \in {"none", "empty"}
    THEN [raised |-> FALSE, value |-> JObj(FALSE, "null", <<>>)]
    ELSE IF b.text = "invalid"
      THEN [raised |-> TRUE, value |-> JOther("null")]
      ELSE [raised |-> FALSE, value |-> b.value]

\* body.get("query", "").strip()
GetQuery(v) ==
  IF v.type # "object" THEN [raised |-> TRUE, query |-> <<>>]
  ELSE IF ~v.has THEN [raised |-> FALSE, query |-> Strip(<<>>)]
  ELSE IF v.qtype # "str" THEN [raised |-> TRUE, query |-> <<>>]
  ELSE [raised |-> FALSE, query |-> Strip(v.q)]

(***************************************************************************)
(* What the site answers                                                   *)
(***************************************************************************)
NoLogin ==
  [raised |-> FALSE, status_code |-> 0, url_dashboard |-> FALSE,
   text_logout |-> FALSE]

\* session.post(login_url, ...): a timeout, or the page the redirects end on;
\* url_dashboard: "dashboard" is in its URL, text_logout: "logout" is in
\* its text
LoginResponses ==
  {[raised |-> TRUE, status_code |-> 0, url_dashboard |-> FALSE,
    text_logout |-> FALSE]}
  \cup [raised : {FALSE}, status_code : {200}, url_dashboard : BOOLEAN,
        text_logout : BOOLEAN]

\* the second `not` dropped
LoginFailedNoNot(resp) == ~resp.url_dashboard /\ resp.text_logout

\* "dashboard" not in login_resp.url and "logout" not in login_resp.text
LoginFailed(resp) == ~resp.url_dashboard /\ ~resp.text_logout

Names ==
  {<<"a", ".", "t", "x", "t">>, <<"B", ".", "T", "x", "T">>,
   <<"c", ".", "m", "p", "3">>, <<"t", "x", "t">>}

\* the bytes of the k-th entry of an archive: one ASCII byte and one byte
\* that is not valid UTF-8
EntryData(k) == <<k, 200 + k>>

Listing(names) ==
  [k \in 1..Len(names) |-> [filename |-> names[k], data |-> EntryData(k)]]

Listings ==
  UNION {{Listing(f) : f \in [1..n -> Names]} : n \in 0..MaxEntries}

\* what a download URL serves: the request times out, or it answers with a
\* status and a body; the body is not a zip file, or a zip file with the
\* entries listed in its central directory whose data reads fine ("ok"),
\* fails its CRC ("crc") or is encrypted ("enc")
Resource(raises, status, is_zip, entries, read) ==
  [raises |-> raises, status_code |-> status, is_zip |-> is_zip,
   entries |-> entries, read |-> read]

Timeout == Resource(TRUE, 0, FALSE, <<>>, "ok")
Http404 == Resource(FALSE, 404, FALSE, <<>>, "ok")
Garbage == Resource(FALSE, 200, FALSE, <<>>, "ok")
Zip(entries, read) == Resource(FALSE, 200, TRUE, entries, read)

Resources ==
  {Timeout, Http404, Garbage}
  \cup {Zip(l, "ok") : l \in Listings}
  \cup {Zip(l, r) : l \in {m \in Listings : Len(m) <= 1}, r \in {"crc", "enc"}}

\* a <tr> of the result table: the number of <td> cells, the texts of the
\* first two, and the <a> of the last cell ("none": no <a>; "nohref": an <a>
\* without href; "href": an <a> whose href is served as `href` says)
Row(k, tds, anchor, href) ==
  [artist |-> k, title |-> k, tds |-> tds, anchor |-> anchor, href |-> href]

Header == Row(0, 0, "none", Http404)

RowKinds ==
  {"short", "noanchor", "nohref", "timeout", "http404", "garbage",
   "zipnotxt", "ziptxt", "zipcrc", "zipenc"}

SongZip == Listing(<<<<"c", ".", "m", "p", "3">>, <<"a", ".", "t", "x", "t">>>>)

KindRow(kind, k) ==
  CASE kind = "short"    -> Row(k, 4, "href", Zip(SongZip, "ok"))
    [] kind = "noanchor" -> Row(k, 5, "none", Http404)
    [] kind = "nohref"   -> Row(k, 5, "nohref", Http404)
    [] kind = "timeout"  -> Row(k, 5, "href", Timeout)
    [] kind = "http404"  -> Row(k, 5, "href", Http404)
    [] kind = "garbage"  -> Row(k, 6, "href", Garbage)
    [] kind = "zipnotxt" -> Row(k, 5, "href", Zip(Listing(<<<<"t", "x", "t">>>>), "ok"))
    [] kind = "ziptxt"   -> Row(k, 5, "href", Zip(SongZip, "ok"))
    [] kind = "zipcrc"   -> Row(k, 5, "href", Zip(SongZip, "crc"))
    [] kind = "zipenc"   -> Row(k, 5, "href", Zip(SongZip, "enc"))

\* pages of up to MaxRows data rows that are all of one kind, except for at
\* most one row: row d, of kind `other` (d = 0: no such row)
UniformPages ==
  UNION {UNION {
    {<<Header>> \o [k \in 1..n |-> KindRow(IF k = d THEN other ELSE base, k)]
       : d \in 0..n, other \in RowKinds}
    : base \in {"short", "http404", "ziptxt"}}
    : n \in 0..MaxRows}

\* pages of up to MaxFull data rows, each linking to any archive
FullPages ==
  UNION {{<<Header>> \o [k \in 1..n |-> Row(k, 5, "href", f[k])]
            : f \in [1..n -> Resources]}
    : n \in 0..MaxFull}

\* the <tr> elements of table.songlist in the search page; <<>> is a page
\* without the table
Pages == {<<>>} \cup UniformPages \cup FullPages

NoSearch == [raised |-> FALSE, status_code |-> 0, trs |-> <<>>]

\* session.get(search_url, ...): a timeout, or a status and a page
SearchResponses ==
  {[raised |-> TRUE, status_code |-> 0, trs |-> <<>>]}
  \cup [raised : {FALSE}, status_code : {200, 500}, trs : Pages]

\* soup.select("table.songlist tr")
SelectTrs(resp) == resp.trs

NoZip == [raised |-> FALSE, status_code |-> 0, is_zip |-> FALSE,
          entries |-> <<>>, read |-> "ok"]

\* session.get(download_url, timeout=20)
Get(href) ==
  [raised |-> href.raises, status_code |-> href.status_code,
   is_zip |-> href.is_zip, entries |-> href.entries, read |-> href.read]

(***************************************************************************)
(* The steps of the handler                                                *)
(***************************************************************************)
\* the limits written in the handler
RowLimit == 10
\* the cap checked with > instead of >=
MaxResultsOffByOne == 3 + 1
MaxResults == 3

\* event.get("httpMethod", "POST") != "POST"
MethodRefusedDefault(ev) == ev.httpMethod \notin {"POST", "None"}

\* event.get("httpMethod") != "POST"
MethodRefused(ev) == ev.httpMethod # "POST"

\* only 404 taken for a failure
SearchFailedOnly404(resp) == resp.status_code = 404

\* search_resp.status_code != 200
SearchFailed(resp) == resp.status_code # 200

\* the column check off by one
RowCheckFourCols(row) ==
  IF row.tds < 4 THEN "skip"
  ELSE IF row.anchor = "none" THEN "skip"
  ELSE IF row.anchor = "nohref" THEN "raise"
  ELSE "fetch"

\* the checks of one row before its download: "skip" (continue), "raise"
\* (dl_link["href"] of an <a> without href) or "fetch"
RowCheck(row) ==
  IF row.tds < 5 THEN "skip"
  ELSE IF row.anchor = "none" THEN "skip"
  ELSE IF row.anchor = "nohref" THEN "raise"
  ELSE "fetch"

\* lower() forgotten
IsTxtCaseSensitive(f) == EndsWith(f, DotTxt)

\* f.lower().endswith(".txt")
IsTxt(f) == EndsWith(Lower(f), DotTxt)

\* z.namelist()
NameList(entries) == [k \in 1..Len(entries) |-> entries[k].filename]

\* [f for f in z.namelist() if f.lower().endswith(".txt")]
TxtFiles(entries) == SelectSeq(NameList(entries), IsTxt)

\* z.read(name): ZipFile looks the name up in NameToInfo, which holds the
\* last entry of the central directory that carries the name
ZipRead(entries, name) ==
  LET ks == {k \in 1..Len(entries) : entries[k].filename = name}
      last == CHOOSE k \in ks : \A m \in ks : m <= k
  IN  entries[last].data

\* BadZipFile from opening the archive not caught
ExtractUncaught(resp) ==
  IF ~resp.is_zip THEN [outcome |-> "raise", txt |-> <<>>]
  ELSE LET txt_files == TxtFiles(resp.entries) IN
    IF txt_files = <<>> THEN [outcome |-> "skip", txt |-> <<>>]
    ELSE IF resp.read = "crc" THEN [outcome |-> "skip", txt |-> <<>>]
    ELSE IF resp.read = "enc" THEN [outcome |-> "raise", txt |-> <<>>]
    ELSE [outcome |-> "ok", txt |-> Decode(ZipRead(resp.entries, txt_files[1]))]

\* the try block around zipfile.ZipFile: "skip" (no .txt entry, or
\* BadZipFile from opening or reading), "raise" (any other exception) or
\* "ok" with the decoded text
Extract(resp) ==
  IF ~resp.is_zip THEN [outcome |-> "skip", txt |-> <<>>]
  ELSE LET txt_files == TxtFiles(resp.entries) IN
    IF txt_files = <<>> THEN [outcome |-> "skip", txt |-> <<>>]
    ELSE IF resp.read = "crc" THEN [outcome |-> "skip", txt |-> <<>>]
    ELSE IF resp.read = "enc" THEN [outcome |-> "raise", txt |-> <<>>]
    ELSE [outcome |-> "ok", txt |-> Decode(ZipRead(resp.entries, txt_files[1]))]

SongResult(row, txt) ==
  [artist |-> row.artist, title |-> row.title, txt |-> txt, source |-> "USDB"]

\* the responses of the handler; body.kind is "text" (a plain string),
\* "error" (a JSON object with an error field) or "list" (a JSON array)
Response(status, kind, text, list) ==
  [statusCode |-> status, body |-> [kind |-> kind, text |-> text, list |-> list]]

NoResponse == Response(0, "none", "", <<>>)
MethodNotAllowed == Response(405, "text", "Method Not Allowed", <<>>)
MissingQuery == Response(400, "error", "Falta query", <<>>)
\* (the message is written without its accent)
LoginError == Response(401, "error", "Login fallo en USDB", <<>>)
SearchError == Response(502, "error", "USDB no responde", <<>>)
\* the body of the response after the loop: the list of results
SuccessBody(list) == list
\* the return of the handler after the loop
Success(list) == Response(200, "list", "", SuccessBody(list))
\* the handler's outermost except clause
Unhandled == Response(500, "error", "exception", <<>>)

\* the loop over the rows, from row k on with the results `acc`: the
\* results when it ends, and whether an exception ended it
RECURSIVE Loop(_, _, _)
Loop(rs, k, acc) ==
  IF k > Len(rs) THEN [raised |-> FALSE, results |-> acc]
  ELSE LET c == RowCheck(rs[k]) IN
    IF c = "skip" THEN Loop(rs, k + 1, acc)
    ELSE IF c = "raise" THEN [raised |-> TRUE, results |-> acc]
    ELSE LET resp == Get(rs[k].href) IN
      IF resp.raised THEN [raised |-> TRUE, results |-> acc]
      ELSE IF resp.status_code # 200 THEN Loop(rs, k + 1, acc)
      ELSE LET e == Extract(resp) IN
        IF e.outcome = "skip" THEN Loop(rs, k + 1, acc)
        ELSE IF e.outcome = "raise" THEN [raised |-> TRUE, results |-> acc]
        ELSE LET acc2 == Append(acc, SongResult(rs[k], e.txt)) IN
          IF Len(acc2) >= MaxResults THEN [raised |-> FALSE, results |-> acc2]
          ELSE Loop(rs, k + 1, acc2)

\* rows = soup.select("table.songlist tr")[1:11]
SelectRows(trs) == Slice(trs, 1, RowLimit + 1)

\* the rows of a search page with status 200, and the loop over them
Pipeline(trs) == Loop(SelectRows(trs), 1, <<>>)

Init ==
  /\ event \in Events
  /\ pc = "method"
  /\ query = <<>>
  /\ login_resp = NoLogin
  /\ search_resp = NoSearch
  /\ rows = <<>>
  /\ i = 0
  /\ results = <<>>
  /\ zip_resp = NoZip
  /\ response = NoResponse
  /\ net = <<>>
  /\ opened = <<>>

\* return `r`
Return(r) == response' = r /\ pc' = "done"

CheckMethod ==
  /\ pc = "method"
  /\ IF MethodRefused(event)
       THEN Return(MethodNotAllowed)
       ELSE pc' = "query" /\ UNCHANGED response
  /\ UNCHANGED <<event, query, login_resp, search_resp, rows, i, results,
                 zip_resp, net, opened>>

ParseQuery ==
  /\ pc = "query"
  /\ LET body == JsonLoads(event.body) IN
     IF body.raised THEN Return(Unhandled) /\ UNCHANGED query
     ELSE LET q == GetQuery(body.value) IN
       IF q.raised THEN Return(Unhandled) /\ UNCHANGED query
       ELSE /\ query' = q.query
            /\ IF q.query = <<>>
                 THEN Return(MissingQuery)
                 ELSE pc' = "login" /\ UNCHANGED response
  /\ UNCHANGED <<event, login_resp, search_resp, rows, i, results, zip_resp,
                 net, opened>>

Login ==
  /\ pc = "login"
  /\ net' = Append(net, [req |-> "login", row |-> 0])
  /\ \E resp \in LoginResponses :
       IF resp.raised THEN Return(Unhandled) /\ UNCHANGED login_resp
       ELSE /\ login_resp' = resp
            /\ IF LoginFailed(resp)
                 THEN Return(LoginError)
                 ELSE pc' = "search" /\ UNCHANGED response
  /\ UNCHANGED <<event, query, search_resp, rows, i, results, zip_resp, opened>>

Search ==
  /\ pc = "search"
  /\ net' = Append(net, [req |-> "search", row |-> 0])
  /\ \E resp \in SearchResponses :
       IF resp.raised
         THEN Return(Unhandled) /\ UNCHANGED <<search_resp, rows, i>>
         ELSE /\ search_resp' = resp
              /\ IF SearchFailed(resp)
                   THEN Return(SearchError) /\ UNCHANGED <<rows, i>>
                   ELSE /\ rows' = SelectRows(SelectTrs(resp))
                        /\ i' = 1
                        /\ pc' = "row"
                        /\ UNCHANGED response
  /\ UNCHANGED <<event, query, login_resp, results, zip_resp, opened>>

\* the head of one iteration of the loop, up to the download
CheckRow ==
  /\ pc = "row"
  /\ i <= Len(rows)
  /\ LET c == RowCheck(rows[i]) IN
       CASE c = "skip"  -> i' = i + 1 /\ UNCHANGED <<pc, response>>
         [] c = "raise" -> Return(Unhandled) /\ UNCHANGED i
         [] c = "fetch" -> pc' = "fetch" /\ UNCHANGED <<i, response>>
  /\ UNCHANGED <<event, query, login_resp, search_resp, rows, results,
                 zip_resp, net, opened>>

\* zip_resp = session.get(download_url, timeout=20) and the status check
Fetch ==
  /\ pc = "fetch"
  /\ net' = Append(net, [req |-> "download", row |-> rows[i].title])
  /\ LET resp == Get(rows[i].href) IN
       IF resp.raised
         THEN Return(Unhandled) /\ UNCHANGED <<i, zip_resp>>
         ELSE /\ zip_resp' = resp
              /\ UNCHANGED response
              /\ IF resp.status_code # 200
                   THEN pc' = "row" /\ i' = i + 1
                   ELSE pc' = "extract" /\ UNCHANGED i
  /\ UNCHANGED <<event, query, login_resp, search_resp, rows, results, opened>>

\* the try block around zipfile.ZipFile and the check of the cap
ExtractTxt ==
  /\ pc = "extract"
  /\ opened' = Append(opened, rows[i].title)
  /\ LET e == Extract(zip_resp) IN
       CASE e.outcome = "skip" ->
              pc' = "row" /\ i' = i + 1 /\ UNCHANGED <<results, response>>
         [] e.outcome = "raise" ->
              Return(Unhandled) /\ UNCHANGED <<i, results>>
         [] e.outcome = "ok" ->
              /\ results' = Append(results, SongResult(rows[i], e.txt))
              /\ UNCHANGED response
              /\ IF Len(results') >= MaxResults
                   THEN pc' = "return" /\ UNCHANGED i
                   ELSE pc' = "row" /\ i' = i + 1
  /\ UNCHANGED <<event, query, login_resp, search_resp, rows, zip_resp, net>>

\* the loop has run out of rows
EndLoop ==
  /\ pc = "row"
  /\ i > Len(rows)
  /\ pc' = "return"
  /\ UNCHANGED <<event, query, login_resp, search_resp, rows, i, results,
                 zip_resp, response, net, opened>>

\* return {"statusCode": 200, ...}
ReturnResults ==
  /\ pc = "return"
  /\ Return(Success(results))
  /\ UNCHANGED <<event, query, login_resp, search_resp, rows, i, results,
                 zip_resp, net, opened>>

Next ==
  \/ CheckMethod
  \/ ParseQuery
  \/ Login
  \/ Search
  \/ CheckRow
  \/ Fetch
  \/ ExtractTxt
  \/ EndLoop
  \/ ReturnResults

Spec == Init /\ [][Next]_vars

(***************************************************************************)
(* Vocabulary of the properties                                            *)
(***************************************************************************)
IsDownload(e) == e.req = "download"

\* the rows for which a download was requested, in the order of the requests
DownloadRows ==
  LET d == SelectSeq(net, IsDownload) IN [k \in 1..Len(d) |-> d[k].row]

\* the rows the results come from, in the order of the results
ResultRows == [k \in 1..Len(results) |-> results[k].title]

Range(s) == {s[k] : k \in 1..Len(s)}

Increasing(s) == \A a, b \in 1..Len(s) : a < b => s[a] < s[b]

\* the list without its j-th element
Remove(s, j) == SubSeq(s, 1, j - 1) \o SubSeq(s, j + 1, Len(s))

Requested(kind) == \E k \in 1..Len(net) : net[k].req = kind

\* the data rows of the search page: all <tr> but the first
DataRows == SubSeq(search_resp.trs, 2, Len(search_resp.trs))

Returned(status) == pc = "done" /\ response.statusCode = status

\* the handler has parsed a search page
Searched == search_resp.status_code = 200

\* how the invocation ended: with the 200 response or not, and the result
\* list it had built
Outcome == [raised |-> response.statusCode # 200, results |-> results]

(***************************************************************************)
(* C1: downloads are requested only for rows among the first 10 data rows, *)
(* in document order and at most once per row; once the result list holds  *)
(* 3 entries no later row is downloaded or extracted; the result list      *)
(* never has more than 3 entries, in the order of their rows.              *)
(***************************************************************************)
C1_BoundedOrderedDownloads ==
  /\ \A r \in Range(DownloadRows) :
       /\ r \in 1..10
       /\ r <= Len(DataRows)
       /\ DataRows[r].title = r
  /\ Increasing(DownloadRows)
  /\ Increasing(opened)
  /\ Range(opened) \subseteq Range(DownloadRows)
  /\ Len(results) <= 3
  /\ Increasing(ResultRows)
  /\ Range(ResultRows) \subseteq Range(opened)
  /\ Len(results) = 3 =>
       \A r \in Range(DownloadRows) \cup Range(opened) : r <= results[3].title

\* three results, and a later row among the first 10 that has a download link
C1_Witness ==
  /\ Returned(200)
  /\ Len(results) = 3
  /\ \E r \in 1..Len(rows) :
       /\ rows[r].title > results[3].title
       /\ rows[r].tds >= 5
       /\ rows[r].anchor = "href"

(***************************************************************************)
(* C2: a login response with neither the dashboard marker in its URL nor   *)
(* the logout marker in its text gives 401 with an error body, and no      *)
(* search or download request; a search request is issued only after a     *)
(* login response with at least one of the markers.                        *)
(***************************************************************************)
C2_LoginFailureStops ==
  /\ (login_resp.status_code # 0
      /\ ~login_resp.url_dashboard /\ ~login_resp.text_logout)
       => /\ pc = "done"
          /\ response.statusCode = 401
          /\ response.body.kind = "error"
          /\ ~Requested("search")
          /\ ~Requested("download")
  /\ Requested("search")
       => /\ login_resp.status_code # 0
          /\ login_resp.url_dashboard \/ login_resp.text_logout

C2_Witness ==
  /\ Returned(401)
  /\ login_resp.status_code # 0
  /\ ~login_resp.url_dashboard /\ ~login_resp.text_logout
  /\ Requested("login")

(***************************************************************************)
(* C3: a search response whose status is not 200 gives 502 with an error   *)
(* body: no row is parsed, no download is requested, no result is returned.*)
(***************************************************************************)
C3_SearchFailureStops ==
  search_resp.status_code \notin {0, 200}
    => /\ pc = "done"
       /\ response.statusCode = 502
       /\ response.body.kind = "error"
       /\ response.body.list = <<>>
       /\ rows = <<>> /\ i = 0
       /\ results = <<>>
       /\ ~Requested("download")

\* a failed search whose page did carry rows
C3_Witness ==
  /\ Returned(502)
  /\ search_resp.status_code = 500
  /\ Len(DataRows) >= 2

(***************************************************************************)
(* C4: a timeout or error during the download or the extraction of one     *)
(* candidate aborts only that candidate: the invocation still ends with a  *)
(* 200 result list.                                                        *)
(***************************************************************************)
\* the download of the row times out, or its archive is opened and reading
\* its .txt entry fails
Faulted(row) ==
  \/ row.title \in Range(DownloadRows) /\ row.href.raises
  \/ /\ row.title \in Range(opened)
     /\ row.href.is_zip
     /\ row.href.read # "ok"
     /\ \E k \in 1..Len(row.href.entries) :
          EndsWith(Lower(row.href.entries[k].filename), <<".", "t", "x", "t">>)

C4_FaultAbortsOnlyCandidate ==
  (pc = "done" /\ \E r \in 1..Len(rows) : Faulted(rows[r]))
    => response.statusCode = 200

(***************************************************************************)
(* C5: a candidate whose download returns a non-200 status, or whose bytes *)
(* are not a valid archive, adds nothing to the result list and does not   *)
(* end the invocation: the next row is processed exactly as it would be    *)
(* had the failed candidate not been in the list.                          *)
(***************************************************************************)
\* the row was downloaded and the download was not 200 or not an archive
DownloadRejected(row) ==
  /\ row.title \in Range(DownloadRows)
  /\ ~row.href.raises
  /\ row.href.status_code # 200 \/ ~row.href.is_zip

\* as stated: the list is the list of data rows of the search page, and the
\* handler run up to the row after the failed one gives what it gives when
\* the failed row is taken out
C5_NextRowAsIfAbsent ==
  (pc = "done" /\ Searched) =>
    \A j \in 1..Len(DataRows) :
      DownloadRejected(DataRows[j]) =>
        /\ j \notin Range(ResultRows)
        /\ j < Len(DataRows) =>
             LET upto == SubSeq(search_resp.trs, 1, j + 2)
             IN  Pipeline(upto) = Pipeline(Remove(upto, j + 1))

\* amended: the list is the list of the first 10 data rows, in which the
\* failed candidate keeps its place in the count; the response of the
\* invocation is the one the loop gives without the failed row
C5_RejectedDownloadAbsorbed ==
  (pc = "done" /\ Searched) =>
    \A j \in 1..Len(rows) :
      DownloadRejected(rows[j]) =>
        /\ rows[j].title \notin Range(ResultRows)
        /\ Outcome = Loop(Remove(rows, j), 1, <<>>)

\* a rejected download, and a result from a later row
C5_Witness ==
  /\ Returned(200)
  /\ \E j \in 1..Len(rows) :
       /\ DownloadRejected(rows[j])
       /\ \E r \in Range(ResultRows) : r > rows[j].title

(***************************************************************************)
(* C6: a row with fewer than 5 columns, or without an anchor in its last   *)
(* column, is excluded: no download is requested for it, it is in no       *)
(* result, and the rows after it give what they give when the excluded row *)
(* is absent.                                                              *)
(***************************************************************************)
Malformed(row) == row.tds < 5 \/ row.anchor = "none"

\* as stated: the excluded row is absent from the search page
C6_MalformedRowAsIfAbsent ==
  (pc = "done" /\ Searched) =>
    \A j \in 1..Len(DataRows) :
      Malformed(DataRows[j]) =>
        /\ j \notin Range(DownloadRows)
        /\ j \notin Range(ResultRows)
        /\ Outcome = Pipeline(Remove(search_resp.trs, j + 1))

\* amended: the excluded row is absent from the first 10 data rows, among
\* which it is counted
C6_MalformedRowSkipped ==
  (pc = "done" /\ Searched) =>
    \A j \in 1..Len(rows) :
      Malformed(rows[j]) =>
        /\ rows[j].title \notin Range(DownloadRows)
        /\ rows[j].title \notin Range(ResultRows)
        /\ Outcome = Loop(Remove(rows, j), 1, <<>>)

\* a malformed row, and a result from a later row
C6_Witness ==
  /\ Returned(200)
  /\ \E j \in 1..Len(rows) :
       /\ Malformed(rows[j])
       /\ \E r \in Range(ResultRows) : r > rows[j].title

(***************************************************************************)
(* C7: for a valid archive, the candidate is excluded when no entry name   *)
(* ends in ".txt" (case-insensitively); otherwise the text of its result   *)
(* is the content of the first ".txt" entry in listing order.              *)
(***************************************************************************)
TxtName(f) == Len(f) >= 4 /\ Lower(SubSeq(f, Len(f) - 3, Len(f))) = <<".", "t", "x", "t">>

\* the positions of the .txt entries in the listing of the archive
TxtPositions(entries) == {k \in 1..Len(entries) : TxtName(entries[k].filename)}

\* the archive of the row was opened, and the extraction is over
Extracted(r) ==
  /\ rows[r].title \in Range(opened)
  /\ ~(pc = "extract" /\ i = r)

C7_FirstTxtEntry ==
  \A r \in 1..Len(rows) :
    (Extracted(r) /\ rows[r].href.is_zip /\ rows[r].href.read = "ok") =>
      LET entries == rows[r].href.entries
          ps == TxtPositions(entries)
      IN  IF ps = {}
            THEN rows[r].title \notin Range(ResultRows)
            ELSE \E k \in 1..Len(results) :
                   /\ results[k].title = rows[r].title
                   /\ LET first == CHOOSE p \in ps : \A m \in ps : p <= m
                      IN  results[k].txt = Decode(entries[first].data)

(***************************************************************************)
(* C8: when the handler returns 200 with an empty result list, every       *)
(* processed row failed one of the soft checks (too few columns, no        *)
(* anchor, non-200 download, invalid archive, no ".txt" entry).            *)
(***************************************************************************)
FailsSoftCheck(row) ==
  \/ row.tds < 5
  \/ row.anchor = "none"
  \/ row.href.status_code # 200
  \/ ~row.href.is_zip
  \/ row.href.read = "crc"
  \/ TxtPositions(row.href.entries) = {}

C8_EmptyOnlyIfAllFail ==
  /\ (Returned(200) /\ results = <<>>) =>
       \A r \in 1..Len(rows) : FailsSoftCheck(rows[r])
  /\ (Returned(200) /\ \E r \in 1..Min(i, Len(rows)) : ~FailsSoftCheck(rows[r]))
       => Len(results) >= 1

\* an empty 200 after rows that failed different checks
C8_Witness ==
  /\ Returned(200)
  /\ results = <<>>
  /\ \E r \in 1..Len(rows) : rows[r].tds >= 5 /\ rows[r].href.status_code # 200
  /\ \E r \in 1..Len(rows) : rows[r].href.is_zip /\ rows[r].tds >= 5
                             /\ rows[r].anchor = "href"

(***************************************************************************)
(* C9: a POST whose body has no query, or a query that is empty or only    *)
(* whitespace, gives 400 with an error body and no request to the site.    *)
(***************************************************************************)
NoQuery(ev) ==
  \/ ev.body.text \in {"none", "empty"}
  \/ /\ ev.body.text = "json"
     /\ ev.body.value.type = "object"
     /\ \/ ~ev.body.value.has
        \/ /\ ev.body.value.qtype = "str"
           /\ \A k \in 1..Len(ev.body.value.q) :
                ev.body.value.q[k] \in {" ", "\t", "\n"}

C9_MissingQuery ==
  (event.httpMethod = "POST" /\ NoQuery(event)) =>
    /\ net = <<>>
    /\ pc \in {"method", "query", "done"}
    /\ pc = "done" => /\ response.statusCode = 400
                      /\ response.body.kind = "error"

C9_Witness ==
  /\ Returned(400)
  /\ event.httpMethod = "POST"
  /\ event.body.text = "json"
  /\ event.body.value.has
  /\ Len(event.body.value.q) >= 2

(***************************************************************************)
(* C10: an event whose httpMethod is not POST, or that has none, gives 405 *)
(* whatever its body, and no request to the site.                          *)
(***************************************************************************)
C10_MethodNotAllowed ==
  event.httpMethod # "POST" =>
    /\ net = <<>>
    /\ pc \in {"method", "done"}
    /\ pc = "done" => response.statusCode = 405

\* refused although the body carries a usable query
C10_Witness ==
  /\ Returned(405)
  /\ event.httpMethod = "None"
  /\ event.body.text = "json"
  /\ event.body.value.q = <<" ", "a", " ">>

(***************************************************************************)
(* The loop of the handler, run step by step, gives what Loop computes.    *)
(***************************************************************************)
LoopAgrees ==
  (pc = "done" /\ Searched) => Outcome = Pipeline(search_resp.trs)

====
